---- MODULE Spec2Model ----
(***************************************************************************)
(* GitBookRenderer.render (pydoc_markdown/contrib/renderers/gitbook.py):   *)
(* the per-module path layout, the directory and file writes, and the      *)
(* navigation tree (module_tree) built while the modules are rendered.     *)
(*                                                                         *)
(* Strings are sequences of tokens.  An identifier ("a", "__init__", "md") *)
(* is one token; the separators "." and "/" are tokens of their own, so    *)
(* split, join, endswith, splitext and the pathlib operations are computed *)
(* on the text as the code computes them.                                  *)
(***************************************************************************)
EXTENDS Integers, Sequences, FiniteSets, TLC

VARIABLES modules, pc, i, module_tree, dirs, files, log, error, run, previous

vars == <<modules, pc, i, module_tree, dirs, files, log, error, run, previous>>

\* Longest list of modules handed to render.
MaxModules == 3
\* Number of render calls made over the same list.
MaxRuns == 2

DOT == "."
SEP == "/"

Last(s) == s[Len(s)]
ButLast(s) == SubSeq(s, 1, Len(s) - 1)
MaxOf(S) == CHOOSE x \in S : \A y \in S : y <= x
Range(s) == {s[k] : k \in 1..Len(s)}
IsPrefix(s, t) == Len(s) <= Len(t) /\ SubSeq(t, 1, Len(s)) = s

(***************************************************************************)
(* Library functions the code calls                                        *)
(***************************************************************************)
RECURSIVE SplitAcc(_, _, _, _)
SplitAcc(s, sep, cur, acc) ==
    IF s = <<>> THEN Append(acc, cur)
    ELSE IF Head(s) = sep THEN SplitAcc(Tail(s), sep, <<>>, Append(acc, cur))
    ELSE SplitAcc(Tail(s), sep, Append(cur, Head(s)), acc)

\* str.split(sep)
split(s, sep) == SplitAcc(s, sep, <<>>, <<>>)

RECURSIVE join(_, _)
\* sep.join(parts)
join(sep, parts) ==
    IF parts = <<>> THEN <<>>
    ELSE IF Len(parts) = 1 THEN parts[1]
    ELSE parts[1] \o <<sep>> \o join(sep, Tail(parts))

\* str.endswith(suffix)
endswith(s, suffix) ==
    /\ Len(suffix) <= Len(s)
    /\ SubSeq(s, Len(s) - Len(suffix) + 1, Len(s)) = suffix

\* pathlib.Path(s): the segments of s, empty segments dropped.
Path(s) == SelectSeq(split(s, SEP), LAMBDA seg : seg # <<>>)

\* path / s
PathJoin(path, s) == path \o Path(s)

\* str(path)
PathStr(path) == join(SEP, path)

\* path.relative_to(base), for a path under base.
relative_to(path, base) == SubSeq(path, Len(Path(base)) + 1, Len(path))

\* splitext that strips nothing.
splitext_kept(s) == s

\* os.path.splitext(s)[0]: the text before the last dot of the last segment,
\* dots that lead the segment not counted.
splitext_root(s) ==
    LET sepIndex == MaxOf({0} \cup {k \in 1..Len(s) : s[k] = SEP})
        dotIndex == MaxOf({0} \cup {k \in 1..Len(s) : s[k] = DOT})
    IN  IF /\ dotIndex > sepIndex
           /\ \E k \in (sepIndex + 1)..(dotIndex - 1) : s[k] # DOT
        THEN SubSeq(s, 1, dotIndex - 1)
        ELSE s

(***************************************************************************)
(* Configuration (dataclass defaults)                                      *)
(***************************************************************************)
docs_base_path == <<"docs">>
relative_output_path == <<"reference">>
output_path == PathJoin(Path(docs_base_path), relative_output_path)

(***************************************************************************)
(* Inputs: docspec modules, as (name, location.filename)                   *)
(***************************************************************************)
Mod(name, filename) == [name |-> name, filename |-> filename]

ModA_pkg  == Mod(<<"a">>, <<"a", SEP, "__init__", DOT, "py">>)
ModAB     == Mod(<<"a", DOT, "b">>, <<"a", SEP, "b", DOT, "py">>)
ModAC     == Mod(<<"a", DOT, "c">>, <<"a", SEP, "c", DOT, "py">>)
ModD      == Mod(<<"d">>, <<"d", DOT, "py">>)
ModDB_pkg == Mod(<<"d", DOT, "b">>, <<"d", SEP, "b", SEP, "__init__", DOT, "py">>)
\* A module named a.__init__ whose source is a stub file, not an __init__.py.
ModAInit  == Mod(<<"a", DOT, "__init__">>, <<"a", SEP, "__init__", DOT, "pyi">>)

Modules == {ModA_pkg, ModAB, ModAC, ModD, ModDB_pkg, ModAInit}

RECURSIVE SeqsUpTo(_, _)
SeqsUpTo(S, n) ==
    IF n = 0 THEN {<<>>}
    ELSE LET shorter == SeqsUpTo(S, n - 1)
         IN  shorter \cup {Append(s, x) : s \in {t \in shorter : Len(t) = n - 1}, x \in S}

ModuleLists == SeqsUpTo(Modules, MaxModules)

(***************************************************************************)
(* The navigation tree: the nested dicts of module_tree, one entry per      *)
(* node, addressed by the keys on the way down from the root.  children is  *)
(* the key list of the node's "children" dict in insertion order.           *)
(***************************************************************************)
EmptyNode == [children |-> <<>>, edges |-> <<>>]
Root == <<>>
EmptyTree == (Root :> EmptyNode)

\* children[key] = {...}: the node under key is replaced by an empty one, and
\* what hung below it is gone.
setdefault_assign(tree, node, key) ==
    LET child == Append(node, key)
        kept == {n \in DOMAIN tree : ~IsPrefix(child, n)}
        pruned == [n \in kept |-> tree[n]]
    IN  (child :> [children |-> <<>>, edges |-> <<>>])
        @@ [pruned EXCEPT ![node].children =
                IF key \in Range(@) THEN @ ELSE Append(@, key)]

\* node["children"].setdefault(key, {"children": {}, "edges": []})
setdefault(tree, node, key) ==
    IF key \in Range(tree[node].children) THEN tree
    ELSE (Append(node, key) :> EmptyNode)
         @@ [tree EXCEPT ![node].children = Append(@, key)]

\* node["edges"] = [edge]
set_edge(tree, node, edge) == [tree EXCEPT ![node].edges = <<edge>>]

\* node["edges"].insert(0, edge)
prepend_edge(tree, node, edge) == [tree EXCEPT ![node].edges = <<edge>> \o @]

\* node["edges"].append(edge)
append_edge(tree, node, edge) == [tree EXCEPT ![node].edges = Append(@, edge)]

\* module.name.split("."), the package initializer forgotten.
module_parts_plain(module) == split(module.name, DOT)

\* module.name.split("."), plus "__init__" for a package initializer.
module_parts(module) ==
    LET parts == split(module.name, DOT)
    IN  IF endswith(module.filename, <<"__init__", DOT, "py">>)
        THEN Append(parts, <<"__init__">>)
        ELSE parts

RECURSIVE Descend(_, _, _, _, _)
\* The inner loop over module_parts[:-1]: walks down the tree, creating the
\* nodes that are missing, and down the output directories.
Descend(tree, node, filepath, intermediary_module, rest) ==
    IF rest = <<>> THEN [tree |-> tree, node |-> node, filepath |-> filepath]
    ELSE LET module_part == Head(rest)
             intermediary == Append(intermediary_module, module_part)
             intermediary_module_name == join(DOT, intermediary)
         IN  Descend(setdefault(tree, node, intermediary_module_name),
                     Append(node, intermediary_module_name),
                     PathJoin(filepath, module_part),
                     intermediary,
                     Tail(rest))

\* The walk without "filepath = filepath / module_part".
WalkFlat(tree, module) ==
    [Descend(tree, Root, output_path, <<>>, ButLast(module_parts(module)))
        EXCEPT !.filepath = output_path]

\* The state of one loop iteration before the directory is created.
Walk(tree, module) ==
    Descend(tree, Root, output_path, <<>>, ButLast(module_parts(module)))

\* filepath / f"{module.name}.md"
FilePathDotted(dirpath, module) ==
    PathJoin(dirpath, module.name \o <<DOT, "md">>)

\* filepath / f"{module_parts[-1]}.md"
FilePath(dirpath, module) ==
    PathJoin(dirpath, Last(module_parts(module)) \o <<DOT, "md">>)

\* os.path.splitext(str(filepath.relative_to(output_path)))[0]
EdgeFromOutputPath(filepath) ==
    splitext_root(PathStr(SubSeq(filepath, Len(output_path) + 1, Len(filepath))))

\* os.path.splitext(str(filepath.relative_to(self.docs_base_path)))[0]
Edge(filepath) == splitext_root(PathStr(relative_to(filepath, docs_base_path)))

(***************************************************************************)
(* The file system                                                         *)
(***************************************************************************)
\* The directories path.mkdir(parents=True) creates up to depth n.
Ancestors(path, n) == {SubSeq(path, 1, k) : k \in 1..n}

\* path.mkdir(parents=True, exist_ok=True)
mkdir(ds, path) == ds \cup Ancestors(path, Len(path))

\* path.open("w"): the file exists and is empty.
open_w(fs, path) ==
    IF path \in DOMAIN fs THEN [fs EXCEPT ![path] = <<>>] ELSE (path :> <<>>) @@ fs

\* fp.write(text) for each piece of text the renderer emits.
write(fs, path, content) == [fs EXCEPT ![path] = @ \o content]

\* What render_single_page may write for a module: a page, or nothing.
PageContents(module) == {<<>>, <<module.name>>}

(***************************************************************************)
(* render                                                                  *)
(***************************************************************************)
Init ==
    /\ modules \in ModuleLists
    /\ pc = "loop"
    /\ i = 0
    /\ module_tree = EmptyTree
    /\ dirs = {}
    /\ files = <<>>
    /\ log = <<>>
    /\ error = "none"
    /\ run = 1
    /\ previous = [tree |-> EmptyTree, dirs |-> {}, files |-> {}]

\* One iteration of the loop over modules that runs to its end.
RenderModule ==
    /\ pc = "loop"
    /\ i < Len(modules)
    /\ LET module == modules[i + 1]
           w == Walk(module_tree, module)
           filepath == FilePath(w.filepath, module)
       IN  \E content \in PageContents(module) :
               /\ dirs' = mkdir(dirs, w.filepath)
               /\ files' = write(open_w(files, filepath), filepath, content)
               /\ log' = Append(log, filepath)
               /\ module_tree' = append_edge(w.tree, w.node, Edge(filepath))
    /\ i' = i + 1
    /\ UNCHANGED <<modules, pc, error, run, previous>>

\* filepath.mkdir raises: some of the missing ancestors may have been made.
MkdirFails ==
    /\ pc = "loop"
    /\ i < Len(modules)
    /\ LET module == modules[i + 1]
           w == Walk(module_tree, module)
       IN  /\ w.filepath \notin dirs
           /\ \E n \in 0..(Len(w.filepath) - 1) :
                  dirs' = dirs \cup Ancestors(w.filepath, n)
           /\ module_tree' = w.tree
    /\ pc' = "raised"
    /\ error' = "mkdir"
    /\ UNCHANGED <<modules, i, files, log, run, previous>>

\* filepath.open("w") raises: the directory exists, the file is untouched.
OpenFails ==
    /\ pc = "loop"
    /\ i < Len(modules)
    /\ LET module == modules[i + 1]
           w == Walk(module_tree, module)
       IN  /\ dirs' = mkdir(dirs, w.filepath)
           /\ module_tree' = w.tree
    /\ pc' = "raised"
    /\ error' = "open"
    /\ UNCHANGED <<modules, i, files, log, run, previous>>

\* render_single_page raises, and the loop goes on to the next module.
RenderSinglePageSkipped ==
    /\ pc = "loop"
    /\ i < Len(modules)
    /\ LET module == modules[i + 1]
           w == Walk(module_tree, module)
           filepath == FilePath(w.filepath, module)
       IN  \E content \in PageContents(module) :
               /\ dirs' = mkdir(dirs, w.filepath)
               /\ files' = write(open_w(files, filepath), filepath, content)
               /\ log' = Append(log, filepath)
               /\ module_tree' = w.tree
    /\ i' = i + 1
    /\ error' = "render_single_page"
    /\ UNCHANGED <<modules, pc, run, previous>>

\* render_single_page raises: the file was opened (truncated) and logged, and
\* holds whatever was written before the exception.
RenderSinglePageFails ==
    /\ pc = "loop"
    /\ i < Len(modules)
    /\ LET module == modules[i + 1]
           w == Walk(module_tree, module)
           filepath == FilePath(w.filepath, module)
       IN  \E content \in PageContents(module) :
               /\ dirs' = mkdir(dirs, w.filepath)
               /\ files' = write(open_w(files, filepath), filepath, content)
               /\ log' = Append(log, filepath)
               /\ module_tree' = w.tree
    /\ pc' = "raised"
    /\ error' = "render_single_page"
    /\ UNCHANGED <<modules, i, run, previous>>

\* The loop is exhausted and render returns.
Return ==
    /\ pc = "loop"
    /\ i = Len(modules)
    /\ pc' = "returned"
    /\ UNCHANGED <<modules, i, module_tree, dirs, files, log, error, run, previous>>

\* render is called again, module_tree kept from the last call.
RenderAgainKeepTree ==
    /\ pc = "returned"
    /\ run < MaxRuns
    /\ previous' = [tree |-> module_tree, dirs |-> dirs, files |-> DOMAIN files]
    /\ i' = 0
    /\ log' = <<>>
    /\ run' = run + 1
    /\ pc' = "loop"
    /\ UNCHANGED <<modules, module_tree, dirs, files, error>>

\* render is called again with the same modules: module_tree is a fresh
\* local, the file system is what the last call left.
RenderAgain ==
    /\ pc = "returned"
    /\ run < MaxRuns
    /\ previous' = [tree |-> module_tree, dirs |-> dirs, files |-> DOMAIN files]
    /\ module_tree' = EmptyTree
    /\ i' = 0
    /\ log' = <<>>
    /\ run' = run + 1
    /\ pc' = "loop"
    /\ UNCHANGED <<modules, dirs, files, error>>

Next ==
    \/ RenderModule
    \/ MkdirFails
    \/ OpenFails
    \/ RenderSinglePageFails
    \/ Return
    \/ RenderAgain

Spec == Init /\ [][Next]_vars

(***************************************************************************)
(* What the layout rules say about a module, computed from its name and    *)
(* source file alone                                                       *)
(***************************************************************************)
Components(module) == split(module.name, DOT)
IsInitializer(module) == endswith(module.filename, <<"__init__", DOT, "py">>)
ExtComponents(module) ==
    IF IsInitializer(module) THEN Append(Components(module), <<"__init__">>)
    ELSE Components(module)

\* The node reached through the first p components: keyed by cumulative prefixes.
NodeAddr(comps, p) == [q \in 1..p |-> join(DOT, SubSeq(comps, 1, q))]
ExpectedNode(module) ==
    NodeAddr(ExtComponents(module), Len(ExtComponents(module)) - 1)
ExpectedNodes(n) ==
    UNION {{NodeAddr(ExtComponents(modules[j]), p) :
                p \in 1..(Len(ExtComponents(modules[j])) - 1)} : j \in 1..n}

MdFile(comp) == comp \o <<DOT, "md">>
ExpectedFile(module) ==
    Path(docs_base_path) \o Path(relative_output_path)
        \o ButLast(ExtComponents(module))
        \o <<MdFile(Last(ExtComponents(module)))>>
ExpectedEdge(module) ==
    join(SEP, Path(relative_output_path) \o ExtComponents(module))

Count(s, e) == Cardinality({k \in 1..Len(s) : s[k] = e})
RECURSIVE SumLen(_, _)
SumLen(tree, nodes) ==
    IF nodes = {} THEN 0
    ELSE LET n == CHOOSE x \in nodes : TRUE
         IN  Len(tree[n].edges) + SumLen(tree, nodes \ {n})
TotalEdges == SumLen(module_tree, DOMAIN module_tree)

TypeOK ==
    /\ modules \in ModuleLists
    /\ pc \in {"loop", "returned", "raised"}
    /\ i \in 0..Len(modules)
    /\ run \in 1..MaxRuns
    /\ error \in {"none", "mkdir", "open", "render_single_page"}

(***************************************************************************)
(* C1                                                                      *)
(***************************************************************************)
ExampleModules == <<ModAB, ModAC, ModD>>
ExampleFiles ==
    { Path(<<"docs", SEP, "reference", SEP, "a", SEP, "b", DOT, "md">>),
      Path(<<"docs", SEP, "reference", SEP, "a", SEP, "c", DOT, "md">>),
      Path(<<"docs", SEP, "reference", SEP, "d", DOT, "md">>) }
KeyA == <<"a">>
ExampleTree(rootEdges, aEdges) ==
    (Root :> [children |-> <<KeyA>>, edges |-> rootEdges])
    @@ (<<KeyA>> :> [children |-> <<>>, edges |-> aEdges])

\* C1 as stated: rendering a.b, a.c, d writes exactly docs/reference/a/b.md,
\* docs/reference/a/c.md and docs/reference/d.md, and the finished tree is
\* {"a": {children: {}, edges: ["a/b", "a/c"]}} with root edges ["d"].
C1_AsStated ==
    (pc = "returned" /\ modules = ExampleModules) =>
        /\ DOMAIN files = ExampleFiles
        /\ module_tree = ExampleTree(<< <<"d">> >>,
                                     << <<"a", SEP, "b">>, <<"a", SEP, "c">> >>)

\* C1 amended: the same files, and the finished tree is
\* {"a": {children: {}, edges: ["reference/a/b", "reference/a/c"]}} with root
\* edges ["reference/d"]: edges are relative to docs_base_path, so they keep
\* the relative_output_path segment.
C1_ExampleTree ==
    (pc = "returned" /\ modules = ExampleModules) =>
        /\ DOMAIN files = ExampleFiles
        /\ module_tree = ExampleTree(
               << <<"reference", SEP, "d">> >>,
               << <<"reference", SEP, "a", SEP, "b">>,
                  <<"reference", SEP, "a", SEP, "c">> >>)

C1_Witness == pc = "returned" /\ modules = ExampleModules /\ run = 1

(***************************************************************************)
(* C2                                                                      *)
(***************************************************************************)
\* C2: the edge appended for a processed module is the written file's path
\* relative to docs_base_path with ".md" stripped: the relative_output_path
\* segments, the module's directory segments, the last component, no extension.
C2_EdgeIsRelativePath ==
    (i >= 1) =>
        LET module == modules[i]
            node == ExpectedNode(module)
            edge == Last(module_tree[node].edges)
        IN  /\ node \in DOMAIN module_tree
            /\ module_tree[node].edges # <<>>
            /\ edge = ExpectedEdge(module)
            /\ Path(docs_base_path) \o Path(edge \o <<DOT, "md">>) = log[i]
            /\ log[i] \in DOMAIN files

C2_Witness ==
    /\ i = 2
    /\ modules[2] = ModDB_pkg
    /\ Last(module_tree[<< <<"d">>, <<"d", DOT, "b">> >>].edges)
           = <<"reference", SEP, "d", SEP, "b", SEP, "__init__">>

(***************************************************************************)
(* C3                                                                      *)
(***************************************************************************)
\* C3: a module whose (possibly __init__-extended) name has k components is
\* written to docs_base_path/relative_output_path, then k-1 directories named
\* after the first k-1 components in order, then <last component>.md.
C3_OutputPath ==
    \A j \in 1..Len(log) :
        LET comps == ExtComponents(modules[j])
            k == Len(comps)
            path == log[j]
            base == Path(docs_base_path) \o Path(relative_output_path)
        IN  /\ k >= 1
            /\ Len(path) = Len(base) + k
            /\ SubSeq(path, 1, Len(base)) = base
            /\ \A q \in 1..(k - 1) : path[Len(base) + q] = comps[q]
            /\ Last(path) = MdFile(comps[k])
            /\ path \in DOMAIN files
            /\ ButLast(path) \in dirs

C3_Witness ==
    /\ Len(log) = 3
    /\ modules = <<ModD, ModAC, ModDB_pkg>>
    /\ log[1] = Path(<<"docs", SEP, "reference", SEP, "d", DOT, "md">>)
    /\ log[2] = Path(<<"docs", SEP, "reference", SEP, "a", SEP, "c", DOT, "md">>)
    /\ log[3] = Path(<<"docs", SEP, "reference", SEP, "d", SEP, "b", SEP,
                       "__init__", DOT, "md">>)

(***************************************************************************)
(* C4                                                                      *)
(***************************************************************************)
\* C4: a package initializer (filename ends with __init__.py) is written to
\* __init__.md inside the directory made of all components of its dotted name,
\* and its edge is recorded in the node keyed by its full dotted name; any
\* other module gets no extra __init__ component.
C4_PackageInitializer ==
    \A j \in 1..Len(log) :
        LET module == modules[j]
            comps == Components(module)
            base == Path(docs_base_path) \o Path(relative_output_path)
        IN  IF IsInitializer(module)
            THEN /\ log[j] = base \o comps \o << <<"__init__", DOT, "md">> >>
                 /\ base \o comps \in dirs
                 /\ j <= i =>
                      \E node \in DOMAIN module_tree :
                          /\ node # Root
                          /\ Last(node) = module.name
                          /\ <<"reference", SEP>> \o join(SEP, comps)
                                 \o <<SEP, "__init__">>
                                 \in Range(module_tree[node].edges)
            ELSE /\ log[j] = base \o ButLast(comps) \o <<MdFile(Last(comps))>>
                 /\ Len(log[j]) = Len(base) + Len(comps)

C4_Witness ==
    /\ pc = "returned"
    /\ modules = <<ModA_pkg, ModDB_pkg, ModD>>
    /\ log[1] = Path(<<"docs", SEP, "reference", SEP, "a", SEP, "__init__", DOT, "md">>)
    /\ Path(<<"docs", SEP, "reference", SEP, "d", DOT, "md">>) \in DOMAIN files
    /\ Path(<<"docs", SEP, "reference", SEP, "d", SEP, "b">>) \in dirs
    /\ <<"reference", SEP, "d", SEP, "b", SEP, "__init__">>
           \in Range(module_tree[<< <<"d">>, <<"d", DOT, "b">> >>].edges)

(***************************************************************************)
(* C5                                                                      *)
(***************************************************************************)
C5_NodeSet ==
    (pc # "raised") =>
        /\ DOMAIN module_tree = {Root} \cup ExpectedNodes(i)
        /\ \A node \in DOMAIN module_tree :
               LET children == module_tree[node].children
               IN  /\ \A q, r \in 1..Len(children) :
                          children[q] = children[r] => q = r
                   /\ {Append(node, key) : key \in Range(children)}
                          = {n \in DOMAIN module_tree :
                                 n # Root /\ ButLast(n) = node}
        /\ \A node \in DOMAIN module_tree \ {Root} :
               \E j \in 1..i :
                   \E p \in 1..(Len(ExtComponents(modules[j])) - 1) :
                       Last(node) = join(DOT, SubSeq(ExtComponents(modules[j]), 1, p))

C5_NodesKept ==
    (run' = run) =>
        \A node \in DOMAIN module_tree :
            /\ node \in DOMAIN module_tree'
            /\ IsPrefix(module_tree[node].children, module_tree'[node].children)
            /\ IsPrefix(module_tree[node].edges, module_tree'[node].edges)

\* C5: the nodes of the tree other than the root are exactly the proper
\* prefixes of the (__init__-extended) dotted names of the modules processed,
\* each keyed by its cumulative dotted prefix and listed once among its
\* parent's children; a node that exists is never re-created or reset: its
\* children and edges only grow during a render pass.
C5_PrefixNodesOnce == []C5_NodeSet /\ [][C5_NodesKept]_vars

C5_Witness ==
    /\ pc = "returned"
    /\ modules = <<ModAB, ModDB_pkg, ModAC>>
    /\ module_tree[Root].children = << <<"a">>, <<"d">> >>
    /\ module_tree[<< <<"d">> >>].children = << <<"d", DOT, "b">> >>
    /\ Len(module_tree[<< <<"a">> >>].edges) = 2
    /\ Cardinality(DOMAIN module_tree) = 4

C7_AsStated ==
    \A j, k \in 1..Len(log) :
        modules[j].name # modules[k].name => log[j] # log[k]

\* n is a package initializer and m a module named n.__init__ that is not one.
InitClash(n, m) ==
    /\ IsInitializer(n)
    /\ ~IsInitializer(m)
    /\ m.name = n.name \o <<DOT, "__init__">>

\* C7 amended: every module is written to one file, and two modules that
\* differ in dotted name are written to different paths, except a package
\* initializer named n and a module named n.__init__ that is not a package
\* initializer: both are written to n/__init__.md.
C7_NoCollision ==
    /\ \A j \in 1..Len(log) : log[j] \in DOMAIN files
    /\ Cardinality(DOMAIN files) <= Len(modules)
    /\ \A j, k \in 1..Len(log) :
           modules[j].name # modules[k].name =>
               (log[j] = log[k]
                    <=> (InitClash(modules[j], modules[k])
                             \/ InitClash(modules[k], modules[j])))

C7_Witness ==
    /\ pc = "returned"
    /\ modules = <<ModA_pkg, ModAB, ModDB_pkg>>
    /\ Cardinality(DOMAIN files) = 3

(***************************************************************************)
(* C8                                                                      *)
(***************************************************************************)
RECURSIVE EdgesInOrder(_, _)
\* The edges of the first n modules that belong to node, in input order.
EdgesInOrder(node, n) ==
    IF n = 0 THEN <<>>
    ELSE IF ExpectedNode(modules[n]) = node
         THEN Append(EdgesInOrder(node, n - 1), ExpectedEdge(modules[n]))
         ELSE EdgesInOrder(node, n - 1)

RECURSIVE ChildrenInOrder(_, _)
\* The child keys of node the first n modules pass through, in the order of
\* their first module.
ChildrenInOrder(node, n) ==
    IF n = 0 THEN <<>>
    ELSE LET comps == ExtComponents(modules[n])
             before == ChildrenInOrder(node, n - 1)
             d == Len(node)
         IN  IF d + 1 <= Len(comps) - 1 /\ NodeAddr(comps, d) = node
             THEN LET key == join(DOT, SubSeq(comps, 1, d + 1))
                  IN  IF key \in Range(before) THEN before ELSE Append(before, key)
             ELSE before

\* C8: modules are processed in input order and nothing is re-sorted: the
\* edges of every node are in the order in which their modules were supplied,
\* and the children of every node in the order in which their prefix was first
\* met.
C8_InputOrder ==
    (pc # "raised") =>
        /\ Len(log) = i
        /\ \A j \in 1..i : log[j] = ExpectedFile(modules[j])
        /\ \A node \in DOMAIN module_tree :
               /\ module_tree[node].edges = EdgesInOrder(node, i)
               /\ module_tree[node].children = ChildrenInOrder(node, i)

C8_Witness ==
    /\ pc = "returned"
    /\ modules = <<ModDB_pkg, ModAC, ModA_pkg>>
    /\ module_tree[Root].children = << <<"d">>, <<"a">> >>
    /\ module_tree[<< <<"a">> >>].edges
           = << <<"reference", SEP, "a", SEP, "c">>,
                <<"reference", SEP, "a", SEP, "__init__">> >>

(***************************************************************************)
(* C9                                                                      *)
(***************************************************************************)
\* C9: rendering the same modules again meets no error on the directories
\* that already exist, truncates and rewrites every file, and starts from an
\* empty tree: once the second pass returns, the directories, the set of files
\* and the tree equal those the first pass left, and no file holds more than
\* the one page last written to it.
C9_RenderAgain ==
    /\ run >= 2 => error # "mkdir"
    /\ (run >= 2 /\ pc = "loop") => TotalEdges = i
    /\ \A f \in DOMAIN files : Len(files[f]) <= 1
    /\ (run >= 2 /\ pc = "returned") =>
           /\ module_tree = previous.tree
           /\ dirs = previous.dirs
           /\ DOMAIN files = previous.files
           /\ \A j \in 1..Len(modules) : log[j] \in previous.files

C9_Witness ==
    /\ run = 2
    /\ pc = "returned"
    /\ modules = <<ModAB, ModDB_pkg, ModAB>>
    /\ TotalEdges = 3
    /\ files[ExpectedFile(ModAB)] = <<ModAB.name>>

(***************************************************************************)
(* C10                                                                     *)
(***************************************************************************)
C10_Stopped ==
    /\ error # "none" <=> pc = "raised"
    /\ pc = "raised" =>
           /\ i < Len(modules)
           /\ TotalEdges = i
           /\ \A j \in 1..i :
                  /\ log[j] = ExpectedFile(modules[j])
                  /\ log[j] \in DOMAIN files
                  /\ ExpectedEdge(modules[j])
                         \in Range(module_tree[ExpectedNode(modules[j])].edges)
           /\ \A p \in 1..(Len(ExtComponents(modules[i + 1])) - 1) :
                  NodeAddr(ExtComponents(modules[i + 1]), p) \in DOMAIN module_tree
           /\ error = "render_single_page" =>
                  /\ Len(log) = i + 1
                  /\ log[i + 1] = ExpectedFile(modules[i + 1])
                  /\ log[i + 1] \in DOMAIN files
           /\ error \in {"mkdir", "open"} => Len(log) = i

C10_FailingStep ==
    /\ pc # "raised"
    /\ pc' = "raised" =>
           /\ i' = i
           /\ dirs \subseteq dirs'
           /\ \A f \in DOMAIN files :
                  /\ f \in DOMAIN files'
                  /\ f # ExpectedFile(modules[i + 1]) => files'[f] = files[f]
           /\ \A node \in DOMAIN module_tree :
                  /\ node \in DOMAIN module_tree'
                  /\ module_tree'[node].edges = module_tree[node].edges

\* C10: when mkdir, open or render_single_page fails on a module, render stops
\* there with that error: no later module is processed and no step follows,
\* no edge is recorded for the failing module, the files and edges of the
\* modules before it stay as they were, and the nodes already created for the
\* failing module's prefixes (and the file it opened, when the renderer
\* failed) are left in place.
C10_FailureStops == []C10_Stopped /\ [][C10_FailingStep]_vars

C10_Witness ==
    /\ pc = "raised"
    /\ error = "render_single_page"
    /\ modules = <<ModD, ModDB_pkg, ModAC>>
    /\ i = 1
    /\ << <<"d">>, <<"d", DOT, "b">> >> \in DOMAIN module_tree
    /\ files[ExpectedFile(ModDB_pkg)] = <<>>
    /\ files[ExpectedFile(ModD)] = <<ModD.name>>

====
